---- MODULE Spec2Model ----
(***************************************************************************)
(* Messaging service (app/routes.py, app/db.py): users, messages that fan  *)
(* out to per-recipient entries, and the read-state of each entry.         *)
(*                                                                         *)
(* The store is the three tables users / messages / recipients.  A         *)
(* handler works through a SQLAlchemy session (autoflush off): db.add      *)
(* puts a new object in the session's pending set, db.commit flushes the   *)
(* pending set into the tables, db.rollback and db.close discard it.       *)
(* get_db (app/db.py) opens one session per request and closes it when     *)
(* the request ends; the test client fixture overrides get_db with one     *)
(* session that serves every request and is never closed between them.     *)
(* Spec is the program under get_db, SpecFixture under the override, both  *)
(* with requests handled one after another; SpecConcurrent is the program  *)
(* under get_db with sends overlapping, each step one access to the store. *)
(* SpecRace and SpecRegister do the same for overlapping mark-as-read and  *)
(* registration requests; SpecDeleted is the program over a store in which *)
(* rows of the users table may be removed.                                 *)
(***************************************************************************)
EXTENDS Integers, Sequences, FiniteSets, TLC

\* ---------------------------------------------------------------- bounds
MaxMessages == 2
MaxRecipients == 2
MaxEntries == 2
MaxTime == 2

\* ------------------------------------------------------------- constants
NULL == -1
HTTP_201_CREATED == 201
HTTP_200_OK == 200
HTTP_400 == 400
HTTP_404 == 404
HTTP_500 == 500

Emails == {"a@example.com", "b@example.com"}
Contents == {"Hello"}

\* ids a request may carry: every id a row can get within the bounds (there
\* is at most one user per email), and one more that never resolves
UserIdInputs == 1..(Cardinality(Emails) + 1)
EntryIdInputs == 1..(MaxEntries + 1)

RECURSIVE SeqsUpTo(_, _)
SeqsUpTo(S, n) ==
    IF n = 0 THEN {<<>>}
    ELSE LET shorter == SeqsUpTo(S, n - 1)
         IN  shorter \cup {Append(s, x) : s \in {t \in shorter : Len(t) = n - 1}, x \in S}

RecipientIdLists == SeqsUpTo(UserIdInputs, MaxRecipients)

VARIABLES
    users,            \* table users: set of [id, email]
    messages,         \* table messages: set of [id, sender_id, content] (content stands
                      \* for the payload columns subject, content, timestamp)
    recipients,       \* table message_recipients: set of [id, message_id, recipient_id, read, read_at]
    new_messages,     \* session.new: Message objects added to the session and not flushed
    now,              \* datetime.now(timezone.utc)
    shared_session,   \* FALSE: get_db, a session per request; TRUE: the fixture's one session
    in_flight         \* the sends being served side by side, each in its own session:
                      \* where the handler is, its request and what its session holds

vars == <<users, messages, recipients, new_messages, now, shared_session, in_flight>>

\* ---------------------------------------------------------------- schemas
\* the error kinds of the external interface, by HTTP status
Kind(status) ==
    IF status = HTTP_400 THEN "ValidationError"
    ELSE IF status = HTTP_404 THEN "NotFoundError"
    ELSE IF status = HTTP_500 THEN "ServerError"
    ELSE "ok"

NoDetail == [msg |-> "", id |-> 0]

\* raise HTTPException(status_code=..., detail=...); id is the id the detail
\* names (0: none)
HTTPException(op, status_code, msg, id) ==
    [op |-> op, status |-> status_code, detail |-> [msg |-> msg, id |-> id], body |-> <<>>]

\* return ...: the handler's status_code and the rows it returns
Response(op, status_code, body) ==
    [op |-> op, status |-> status_code, detail |-> NoDetail, body |-> body]

\* models.MessageRecipient(message_id=..., recipient_id=...): the column
\* defaults give it read = False and read_at = None; its id is drawn on flush
NewMessageRecipient(message_id, recipient_id) ==
    [message_id |-> message_id, recipient_id |-> recipient_id,
     read |-> FALSE, read_at |-> NULL]

\* uuid.uuid4(): an id no row and no pending object carries (ids 1, 2, ...
\* stand for the uuids in the order they are first used)
NewId(used) == CHOOSE id \in 1..(Cardinality(used) + 1) : id \notin used
next_user_id == NewId({u.id : u \in users})
next_message_id == NewId({m.id : m \in messages \cup new_messages})
next_entry_id == NewId({r.id : r \in recipients})

\* ---------------------------------------------------------------- session
\* db.query(models.User).filter(models.User.id == id).first()
UserById(id) == {u \in users : u.id = id}
\* a pre-check that never finds the email
UserByEmailNone(email) == {}
\* db.query(models.User).filter(models.User.email == email).first()
UserByEmail(email) == {u \in users : u.email = email}

\* a query that forgets its filter
EntryByIdAny(id) == recipients
\* db.query(models.MessageRecipient).filter(MessageRecipient.id == id).first()
EntryById(id) == {r \in recipients : r.id = id}

\* flush of the pending MessageRecipient objects: each gets a fresh id, in
\* the order the objects were added
FlushRecipients(pending, first_id) ==
    {[id |-> first_id + i - 1,
      message_id |-> pending[i].message_id,
      recipient_id |-> pending[i].recipient_id,
      read |-> pending[i].read,
      read_at |-> pending[i].read_at] : i \in 1..Len(pending)}

\* an UPDATE keyed by message_id instead of the row's id: the change reaches
\* every recipient row of the message
CommitByMessage(pending_messages, pending_recipients, dirty) ==
    [messages |-> messages \cup pending_messages,
     recipients |-> {IF \E d \in dirty : d.message_id = r.message_id
                     THEN [r EXCEPT !.read = (CHOOSE d \in dirty : d.message_id = r.message_id).read,
                                    !.read_at = (CHOOSE d \in dirty : d.message_id = r.message_id).read_at]
                     ELSE r : r \in recipients}
                       \cup FlushRecipients(pending_recipients, next_entry_id),
     new_messages |-> {}]
\* db.commit(): flush the session (the rows it changed, `dirty`, and every
\* pending object), then commit; the tables and the session afterwards
Commit(pending_messages, pending_recipients, dirty) ==
    [messages |-> messages \cup pending_messages,
     recipients |-> {IF \E d \in dirty : d.id = r.id
                     THEN CHOOSE d \in dirty : d.id = r.id ELSE r : r \in recipients}
                       \cup FlushRecipients(pending_recipients, next_entry_id),
     new_messages |-> {}]

\* the request ends with `pending` left in the session: get_db closes its
\* session (pending objects are dropped), the fixture's session keeps them
EndRequest(pending_messages) == IF shared_session THEN pending_messages ELSE {}

\* db.rollback(): the pending objects are expunged
Rollback == {}

\* ------------------------------------------------------- a handler's outcome
\* the response, the tables and the session as the handler leaves them;
\* fits: the rows it creates are within the bounds of the model
\* raise: nothing was committed, `pending` is what the session keeps
Raise(exception, pending) ==
    [resp |-> exception, users |-> users, messages |-> messages,
     recipients |-> recipients, new_messages |-> pending, fits |-> TRUE]

\* return after db.commit()
Return(response, users_after, committed) ==
    [resp |-> response, users |-> users_after, messages |-> committed.messages,
     recipients |-> committed.recipients, new_messages |-> committed.new_messages,
     fits |-> TRUE]

\* --------------------------------------------------------------- handlers
create_user(email) ==
    IF UserByEmail(email) # {}
    THEN Raise(HTTPException("create_user", HTTP_400, "Email already registered", 0),
               EndRequest(new_messages))
    ELSE LET db_user == [id |-> next_user_id, email |-> email] IN
         Return(Response("create_user", HTTP_201_CREATED, <<db_user>>),
                users \cup {db_user}, Commit(new_messages, <<>>, {}))

\* the loop stopping at the last unknown id instead of the first
RECURSIVE LastUnknown(_)
LastUnknown(recipient_ids) ==
    IF recipient_ids = <<>> THEN 0
    ELSE IF LastUnknown(Tail(recipient_ids)) # 0 THEN LastUnknown(Tail(recipient_ids))
    ELSE IF UserById(Head(recipient_ids)) = {} THEN Head(recipient_ids)
    ELSE 0
\* the loop without its check: no id is ever found unknown
FirstUnknownNone(recipient_ids) == 0
\* the recipient_id at which the loop raises: the first of the list that
\* resolves to no user (0: every id resolves)
RECURSIVE FirstUnknown(_)
FirstUnknown(recipient_ids) ==
    IF recipient_ids = <<>> THEN 0
    ELSE IF UserById(Head(recipient_ids)) = {} THEN Head(recipient_ids)
    ELSE FirstUnknown(Tail(recipient_ids))

\* db.add outside the loop: only the last recipient gets a row
RecipientRowsLastOnly(message_id, recipient_ids) ==
    IF recipient_ids = <<>> THEN <<>>
    ELSE <<NewMessageRecipient(message_id, recipient_ids[Len(recipient_ids)])>>
\* the MessageRecipient objects the loop adds, one per recipient_id, in order
RecipientRows(message_id, recipient_ids) ==
    [i \in 1..Len(recipient_ids) |-> NewMessageRecipient(message_id, recipient_ids[i])]

\* the ids of the list before the one the loop raises at
RECURSIVE KnownPrefix(_)
KnownPrefix(recipient_ids) ==
    IF recipient_ids = <<>> \/ UserById(Head(recipient_ids)) = {} THEN <<>>
    ELSE <<Head(recipient_ids)>> \o KnownPrefix(Tail(recipient_ids))

\* a commit where the rollback should be: the rows added so far are flushed
AbortAfterFlush(db_message, recipient_ids) ==
    Return(HTTPException("create_message", HTTP_404,
                         "Recipient not found.", FirstUnknown(recipient_ids)),
           users,
           Commit(new_messages \cup {db_message},
                  RecipientRows(db_message.id, KnownPrefix(recipient_ids)), {}))
\* a recipient_id resolves to no user: roll back and raise
AbortFanOut(db_message, recipient_ids) ==
    Raise(HTTPException("create_message", HTTP_404,
                        "Recipient not found.", FirstUnknown(recipient_ids)),
          Rollback)

\* the sender does not resolve
RejectSender ==
    Raise(HTTPException("create_message", HTTP_404, "Sender not found.", 0),
          EndRequest(new_messages))

\* the handler once the sender is known: the Message is added to the session,
\* then the recipient list is checked and walked, then the commit
FanOut(sender_id, content, recipient_ids) ==
    LET db_message == [id |-> next_message_id, sender_id |-> sender_id,
                       content |-> content]
        outcome ==
            IF recipient_ids = <<>>
            THEN Raise(HTTPException("create_message", HTTP_400,
                                     "Message must have at least one recipient.", 0),
                       EndRequest(new_messages \cup {db_message}))
            ELSE IF FirstUnknown(recipient_ids) # 0
            THEN AbortFanOut(db_message, recipient_ids)
            ELSE Return(Response("create_message", HTTP_201_CREATED, <<db_message>>),
                        users,
                        Commit(new_messages \cup {db_message},
                               RecipientRows(db_message.id, recipient_ids), {}))
    IN  IF db_message.id <= MaxMessages /\ Cardinality(outcome.recipients) <= MaxEntries
        THEN outcome
        ELSE [outcome EXCEPT !.fits = FALSE]

\* the handler without its sender check
create_message_unchecked(sender_id, content, recipient_ids) ==
    FanOut(sender_id, content, recipient_ids)
create_message(sender_id, content, recipient_ids) ==
    IF UserById(sender_id) = {}
    THEN RejectSender
    ELSE FanOut(sender_id, content, recipient_ids)

\* the update made whatever the flag
NeedsUpdateAlways(db_recipient_entry) == TRUE
\* if not db_recipient_entry.read
NeedsUpdate(db_recipient_entry) == ~db_recipient_entry.read

\* the flag set and the timestamp forgotten
MarkedFlagOnly(db_recipient_entry) == [db_recipient_entry EXCEPT !.read = TRUE]
\* the timestamp set and the flag forgotten
MarkedStampOnly(db_recipient_entry) == [db_recipient_entry EXCEPT !.read_at = now]
\* db_recipient_entry.read = True; db_recipient_entry.read_at = datetime.now(...)
Marked(db_recipient_entry) == [db_recipient_entry EXCEPT !.read = TRUE, !.read_at = now]

\* a handler that takes the mark back from an entry already read
mark_message_as_read_toggle(recipient_entry_id) ==
    LET found == EntryById(recipient_entry_id) IN
    IF found = {}
    THEN Raise(HTTPException("mark_message_as_read", HTTP_404,
                             "Message recipient entry not found", 0),
               EndRequest(new_messages))
    ELSE LET db_recipient_entry == CHOOSE r \in found : \A o \in found : r.id <= o.id
             toggled == IF db_recipient_entry.read
                        THEN [db_recipient_entry EXCEPT !.read = FALSE, !.read_at = NULL]
                        ELSE Marked(db_recipient_entry)
         IN  Return(Response("mark_message_as_read", HTTP_200_OK, <<toggled>>),
                    users, Commit(new_messages, <<>>, {toggled}))
mark_message_as_read(recipient_entry_id) ==
    LET found == EntryById(recipient_entry_id) IN
    IF found = {}
    THEN Raise(HTTPException("mark_message_as_read", HTTP_404,
                             "Message recipient entry not found", 0),
               EndRequest(new_messages))
    ELSE LET db_recipient_entry == CHOOSE r \in found : \A o \in found : r.id <= o.id IN
         IF NeedsUpdate(db_recipient_entry)
         THEN Return(Response("mark_message_as_read", HTTP_200_OK,
                              <<Marked(db_recipient_entry)>>),
                     users,
                     Commit(new_messages, <<>>, {Marked(db_recipient_entry)}))
         ELSE Raise(Response("mark_message_as_read", HTTP_200_OK, <<db_recipient_entry>>),
                    EndRequest(new_messages))

\* ----------------------------------------------------------------- queries
\* .all() of a query without ORDER BY: the rows in an order the store picks
Orderings(rows) ==
    {order \in [1..Cardinality(rows) -> rows] :
        \A i, j \in 1..Cardinality(rows) : i # j => order[i] # order[j]}

\* db.query(models.Message).filter(models.Message.id == id).first()
MessageById(id) == {m \in messages : m.id = id}

\* every Message, whoever sent it
SentQueryAll(user_id) == messages
\* db.query(models.Message).filter(models.Message.sender_id == user_id)
SentQuery(user_id) == {m \in messages : m.sender_id = user_id}

get_sent_messages(user_id, sent) ==
    IF UserById(user_id) = {}
    THEN Raise(HTTPException("get_sent_messages", HTTP_404, "User not found.", 0),
               EndRequest(new_messages))
    ELSE Raise(Response("get_sent_messages", HTTP_200_OK, sent),
               EndRequest(new_messages))

\* db.query(Message, MessageRecipient).join(MessageRecipient, Message.id ==
\* MessageRecipient.message_id): the pairs <<message, recipient_entry>>
Joined == {<<m, e>> \in messages \X recipients : m.id = e.message_id}
\* .filter(MessageRecipient.recipient_id == user_id)
InboxQuery(user_id) == {row \in Joined : row[2].recipient_id = user_id}
\* the read filter forgotten
UnreadInboxQueryAll(user_id) == InboxQuery(user_id)
\* .filter(MessageRecipient.recipient_id == user_id, MessageRecipient.read == False)
UnreadInboxQuery(user_id) == {row \in InboxQuery(user_id) : row[2].read = FALSE}

\* schemas.MessageInboxItem(...): sender is the Message's sender when it
\* resolves (a set of at most one user; empty: None)
MessageInboxItem(message, recipient_entry) ==
    [id |-> message.id, sender_id |-> message.sender_id, content |-> message.content,
     recipient_entry_id |-> recipient_entry.id, read |-> recipient_entry.read,
     read_at |-> recipient_entry.read_at, sender |-> UserById(message.sender_id)]

\* `sender: User` is a required field of schemas.MessageInboxItem: the
\* constructor raises a ValidationError when it is given sender=None
SenderRequired(item) == item.sender # {}

\* result.append(MessageInboxItem(...)) for every row, in order
InboxItems(inbox_entries) ==
    [i \in 1..Len(inbox_entries) |-> MessageInboxItem(inbox_entries[i][1], inbox_entries[i][2])]

\* response_model=List[...]: a handler that returned a list answers 200 with
\* it; one that fell off its end returned None, which fails the response
\* validation: 500
ResponseModelList(op, returned_list, result) ==
    IF returned_list THEN Response(op, HTTP_200_OK, result)
    ELSE HTTPException(op, HTTP_500, "ResponseValidationError", 0)

\* `return result` sits inside the loop: the first iteration returns the
\* list with the one item appended so far; with no row the loop body never
\* runs and the function ends without a return
get_inbox_messages(user_id, inbox_entries) ==
    IF UserById(user_id) = {}
    THEN Raise(HTTPException("get_inbox_messages", HTTP_404, "User not found.", 0),
               EndRequest(new_messages))
    ELSE IF inbox_entries # <<>> /\ ~SenderRequired(InboxItems(inbox_entries)[1])
    THEN Raise(HTTPException("get_inbox_messages", HTTP_500, "ValidationError", 0),
               EndRequest(new_messages))
    ELSE Raise(ResponseModelList("get_inbox_messages", inbox_entries # <<>>,
                                 IF inbox_entries = <<>> THEN <<>>
                                 ELSE <<InboxItems(inbox_entries)[1]>>),
               EndRequest(new_messages))

\* the handler without its user check: an unknown user gets an empty list
get_unread_inbox_messages_unchecked(user_id, inbox_entries) ==
    Raise(ResponseModelList("get_unread_inbox_messages", TRUE, InboxItems(inbox_entries)),
          EndRequest(new_messages))
get_unread_inbox_messages(user_id, inbox_entries) ==
    IF UserById(user_id) = {}
    THEN Raise(HTTPException("get_unread_inbox_messages", HTTP_404, "User not found.", 0),
               EndRequest(new_messages))
    ELSE IF \E i \in 1..Len(inbox_entries) : ~SenderRequired(InboxItems(inbox_entries)[i])
    THEN Raise(HTTPException("get_unread_inbox_messages", HTTP_500, "ValidationError", 0),
               EndRequest(new_messages))
    ELSE Raise(ResponseModelList("get_unread_inbox_messages", TRUE,
                                 InboxItems(inbox_entries)),
               EndRequest(new_messages))

\* the rows of every message
RecipientQueryAll(message_id) ==
    {<<e, u>> \in recipients \X users : e.recipient_id = u.id}
\* db.query(MessageRecipient, User).join(User, MessageRecipient.recipient_id
\* == User.id).filter(MessageRecipient.message_id == message_id)
RecipientQuery(message_id) ==
    {<<e, u>> \in recipients \X users : e.recipient_id = u.id /\ e.message_id = message_id}

\* the dict built per row (email stands for the user's name and email)
RecipientStatus(recipient_entry, user) ==
    [recipient_entry_id |-> recipient_entry.id, recipient_id |-> user.id,
     recipient_email |-> user.email, read |-> recipient_entry.read,
     read_at |-> recipient_entry.read_at]

get_message_recipient(message_id, recipient_data) ==
    IF MessageById(message_id) = {}
    THEN Raise(HTTPException("get_message_recipient", HTTP_404, "Message not found.", 0),
               EndRequest(new_messages))
    ELSE Raise(Response("get_message_recipient", HTTP_200_OK,
                        [i \in 1..Len(recipient_data) |->
                            RecipientStatus(recipient_data[i][1], recipient_data[i][2])]),
               EndRequest(new_messages))

\* ---------------------------------------------------------- specification
\* a request is handled: the response goes to the client, the tables and the
\* session are left as the outcome says
Handle(outcome) ==
    \E o \in {outcome} :
        /\ o.fits
        /\ users' = o.users
        /\ messages' = o.messages
        /\ recipients' = o.recipients
        /\ new_messages' = o.new_messages
        /\ UNCHANGED <<now, shared_session, in_flight>>

CreateUser == \E email \in Emails : Handle(create_user(email))
CreateMessage ==
    \E sender_id \in UserIdInputs, content \in Contents, recipient_ids \in RecipientIdLists :
        Handle(create_message(sender_id, content, recipient_ids))
MarkMessageAsRead == \E id \in EntryIdInputs : Handle(mark_message_as_read(id))
GetSentMessages ==
    \E user_id \in UserIdInputs : \E sent \in Orderings(SentQuery(user_id)) :
        Handle(get_sent_messages(user_id, sent))
GetInboxMessages ==
    \E user_id \in UserIdInputs : \E inbox_entries \in Orderings(InboxQuery(user_id)) :
        Handle(get_inbox_messages(user_id, inbox_entries))
GetUnreadInboxMessages ==
    \E user_id \in UserIdInputs : \E inbox_entries \in Orderings(UnreadInboxQuery(user_id)) :
        Handle(get_unread_inbox_messages(user_id, inbox_entries))
MessageIdInputs == 1..(MaxMessages + 1)
GetMessageRecipient ==
    \E message_id \in MessageIdInputs :
        \E recipient_data \in Orderings(RecipientQuery(message_id)) :
            Handle(get_message_recipient(message_id, recipient_data))

\* the clock moves between requests.  The clock is seen only through the
\* read_at it stamps, and only the order of stamps matters: a tick before the
\* current time has been stamped leads to an equivalent state, and is left out
Tick ==
    /\ now < MaxTime
    /\ \E r \in recipients : r.read_at = now
    /\ now' = now + 1
    /\ UNCHANGED <<users, messages, recipients, new_messages, shared_session, in_flight>>

\* the requests that may be in flight together
Workers == {1, 2}

\* a worker between requests: a fresh session
Idle ==
    [pc |-> "idle",
     message_data |-> [sender_id |-> 0, content |-> "", recipient_ids |-> <<>>],
     message_id |-> 0, i |-> 0]

\* the tables after Base.metadata.create_all, and a fresh session
Tables ==
    /\ users = {}
    /\ messages = {}
    /\ recipients = {}
    /\ new_messages = {}
    /\ now = 1
    /\ in_flight = [w \in Workers |-> Idle]

Init == Tables /\ shared_session = FALSE
InitFixture == Tables /\ shared_session = TRUE

Next ==
    \/ CreateUser
    \/ CreateMessage
    \/ MarkMessageAsRead
    \/ GetSentMessages
    \/ GetInboxMessages
    \/ GetUnreadInboxMessages
    \/ GetMessageRecipient
    \/ Tick

\* the program under get_db: a session per request
Spec == Init /\ [][Next]_vars
\* the program under the test client's override: one session for every request
SpecFixture == InitFixture /\ [][Next]_vars

\* ------------------------------------------------------- concurrent sends
\* Requests served side by side (threads, or workers on one database): each
\* gets its own session from get_db, sees the committed tables only, and its
\* pending objects reach the tables in the one transaction of its db.commit()
\* new_message_id = uuid.uuid4(): an id no row and no session carries
next_message_id_in_flight ==
    NewId({m.id : m \in messages} \cup
          {in_flight[w].message_id : w \in {v \in Workers : in_flight[v].pc # "idle"}})

\* the MessageRecipient objects pending in the sessions of the sends in flight
RowsInFlight ==
    LET count[S \in SUBSET Workers] ==
            IF S = {} THEN 0
            ELSE LET w == CHOOSE w \in S : TRUE
                 IN  in_flight[w].i + count[S \ {w}]
    IN  count[Workers]

\* db_message, pending in the worker's session since db.add(db_message)
PendingMessage(w) ==
    [id |-> in_flight[w].message_id,
     sender_id |-> in_flight[w].message_data.sender_id,
     content |-> in_flight[w].message_data.content]
\* the MessageRecipient objects the loop has added to the session so far
PendingRows(w) ==
    RecipientRows(in_flight[w].message_id,
                  SubSeq(in_flight[w].message_data.recipient_ids, 1, in_flight[w].i))

\* db.commit() indented into the loop: the commit after the first recipient
LoopDoneEarly(w) == in_flight[w].i >= 1
\* the for loop has walked the whole list
LoopDone(w) == in_flight[w].i = Len(in_flight[w].message_data.recipient_ids)

\* a send starts: the sender query, the Message added to the session, the
\* check of the list.  Either raise ends the request; get_db closes the
\* session and what it held is dropped.  Workers are interchangeable: the
\* request goes to the first one that is free
SendBegin(w) ==
    \E sender_id \in UserIdInputs, content \in Contents, recipient_ids \in RecipientIdLists :
        /\ in_flight[w].pc = "idle"
        /\ \A v \in Workers : v < w => in_flight[v].pc # "idle"
        /\ next_message_id_in_flight <= MaxMessages
        /\ Cardinality(recipients) + RowsInFlight + Len(recipient_ids) <= MaxEntries
        /\ in_flight' = [in_flight EXCEPT ![w] =
                IF UserById(sender_id) = {} \/ recipient_ids = <<>>
                THEN Idle
                ELSE [pc |-> "loop",
                      message_data |-> [sender_id |-> sender_id, content |-> content,
                                        recipient_ids |-> recipient_ids],
                      message_id |-> next_message_id_in_flight, i |-> 0]]
        /\ UNCHANGED <<users, messages, recipients, new_messages, now, shared_session>>

\* one iteration of the loop: the recipient query against the committed
\* users, then db.add of its row, or db.rollback() and the raise
SendLoop(w) ==
    /\ in_flight[w].pc = "loop"
    /\ ~LoopDone(w)
    /\ Cardinality(recipients) + RowsInFlight < MaxEntries
    /\ LET recipient_id == in_flight[w].message_data.recipient_ids[in_flight[w].i + 1]
       IN  in_flight' = [in_flight EXCEPT ![w] =
                IF UserById(recipient_id) = {} THEN Idle
                ELSE [@ EXCEPT !.i = @ + 1]]
    /\ UNCHANGED <<users, messages, recipients, new_messages, now, shared_session>>

\* db.commit() after the loop: the session's Message and rows are flushed and
\* committed in one transaction
SendCommit(w) ==
    /\ in_flight[w].pc = "loop"
    /\ LoopDone(w)
    /\ \E committed \in {Commit({PendingMessage(w)}, PendingRows(w), {})} :
        /\ messages' = committed.messages
        /\ recipients' = committed.recipients
    /\ in_flight' = [in_flight EXCEPT ![w] = Idle]
    /\ UNCHANGED <<users, new_messages, now, shared_session>>

NextConcurrent ==
    \/ \E w \in Workers : SendBegin(w)
    \/ \E w \in Workers : SendLoop(w)
    \/ \E w \in Workers : SendCommit(w)

\* the service once its users are registered: a state Spec reaches by one
\* create_user per email
Registered ==
    /\ users = {[id |-> 1, email |-> "a@example.com"], [id |-> 2, email |-> "b@example.com"]}
    /\ messages = {}
    /\ recipients = {}
    /\ new_messages = {}
    /\ now = 1
    /\ in_flight = [w \in Workers |-> Idle]
    /\ shared_session = FALSE

\* the program under get_db with sends overlapping in time
SpecConcurrent == Registered /\ [][NextConcurrent]_vars

\* ------------------------------------------------------- concurrent marks
\* mark_message_as_read reads the row and writes it back in two statements,
\* with nothing that holds the row in between: two requests may both load
\* the row before either commits

\* the row as the worker's session loaded it
Loaded(db_recipient_entry) == [pc |-> "loaded", db_recipient_entry |-> db_recipient_entry]

\* the query: the row is loaded into the session, or the 404 ends the request
MarkQuery(w) ==
    \E recipient_entry_id \in EntryIdInputs :
        /\ in_flight[w].pc = "idle"
        /\ in_flight' = [in_flight EXCEPT ![w] =
                IF EntryById(recipient_entry_id) = {} THEN Idle
                ELSE Loaded(CHOOSE r \in EntryById(recipient_entry_id) : TRUE)]
        /\ UNCHANGED <<users, messages, recipients, new_messages, now, shared_session>>

\* what the handler returns: the object of its session, marked by it when it
\* was loaded unread
MarkReturned(w) ==
    IF NeedsUpdate(in_flight[w].db_recipient_entry)
    THEN Marked(in_flight[w].db_recipient_entry)
    ELSE in_flight[w].db_recipient_entry

\* `if not db_recipient_entry.read` on the loaded object, then the UPDATE of
\* the row by id and the commit; otherwise the return without a write
MarkWrite(w) ==
    /\ in_flight[w].pc = "loaded"
    /\ recipients' =
            IF NeedsUpdate(in_flight[w].db_recipient_entry)
            THEN Commit({}, <<>>, {MarkReturned(w)}).recipients
            ELSE recipients
    /\ in_flight' = [in_flight EXCEPT ![w] = Idle]
    /\ UNCHANGED <<users, messages, new_messages, now, shared_session>>

NextRace ==
    \/ CreateUser
    \/ CreateMessage
    \/ \E w \in Workers : MarkQuery(w)
    \/ \E w \in Workers : MarkWrite(w)
    \/ Tick

\* the program under get_db with marks overlapping in time
SpecRace == Init /\ [][NextRace]_vars

\* ----------------------------------------------- concurrent registrations
\* create_user checks the email and inserts in two statements: two requests
\* may both pass the check before either commits

\* the unique constraint of users.email, the store's guard
UniqueEmail(email) == \A u \in users : u.email # email

\* the request has passed its pre-check
Checked(email) == [pc |-> "checked", email |-> email]

\* the pre-check: the 400 ends the request, otherwise it goes on to insert
UserCheck(w) ==
    \E email \in Emails :
        /\ in_flight[w].pc = "idle"
        /\ in_flight' = [in_flight EXCEPT ![w] =
                IF UserByEmail(email) # {} THEN Idle ELSE Checked(email)]
        /\ UNCHANGED <<users, messages, recipients, new_messages, now, shared_session>>

\* an insert into a table without the constraint
InsertUserUnconstrained(email) == users \cup {[id |-> next_user_id, email |-> email]}
\* db.add(db_user); db.commit(): the INSERT, which the store refuses
\* (IntegrityError, nothing is written) when the email is taken by then
InsertUser(email) ==
    IF UniqueEmail(email)
    THEN users \cup {[id |-> next_user_id, email |-> email]}
    ELSE users

UserCommit(w) ==
    /\ in_flight[w].pc = "checked"
    /\ users' = InsertUser(in_flight[w].email)
    /\ in_flight' = [in_flight EXCEPT ![w] = Idle]
    /\ UNCHANGED <<messages, recipients, new_messages, now, shared_session>>

NextRegister ==
    \/ \E w \in Workers : UserCheck(w)
    \/ \E w \in Workers : UserCommit(w)
    \/ CreateMessage

\* the program under get_db with registrations overlapping in time
SpecRegister == Init /\ [][NextRegister]_vars

\* ---------------------------------------------------------- deleted users
\* the service never deletes a User; a row of the users table removed in the
\* store leaves the Messages it sent with a sender_id that resolves to no user
UserDeleted ==
    /\ \E u \in users : users' = users \ {u}
    /\ UNCHANGED <<messages, recipients, new_messages, now, shared_session, in_flight>>

NextDeleted ==
    \/ CreateMessage
    \/ MarkMessageAsRead
    \/ GetInboxMessages
    \/ GetUnreadInboxMessages
    \/ UserDeleted
    \/ Tick

\* the program under get_db over a store whose users may be deleted
SpecDeleted == Registered /\ [][NextDeleted]_vars

\* ------------------------------------------------------------------ claims
\* Each claim about a request is stated of every request that can be made in
\* a reachable state: the handler's outcome there against the state it is
\* made in.
Known(id) == \E u \in users : u.id = id
SomeUnknown(recipient_ids) == \E i \in 1..Len(recipient_ids) : ~Known(recipient_ids[i])
Occurrences(recipient_ids, id) ==
    Cardinality({i \in 1..Len(recipient_ids) : recipient_ids[i] = id})
RowsOf(message_id) == {e \in recipients : e.message_id = message_id}

\* C1: a send whose sender exists and whose recipient_ids is non-empty with
\* every id an existing user succeeds (201); the store gains exactly one
\* Message, with that sender_id, and exactly len(recipient_ids) recipient
\* rows for it (one per occurrence of an id in the list), each with
\* read = false and read_at = null; nothing else is added or changed.
C1_SendFansOut ==
    \A s \in UserIdInputs, c \in Contents, r \in RecipientIdLists :
        (Known(s) /\ r # <<>> /\ ~SomeUnknown(r)) =>
            \A after \in {create_message(s, c, r)} :
            LET added == after.recipients \ recipients
            IN  after.fits =>
                /\ after.resp.status = HTTP_201_CREATED
                /\ after.users = users
                /\ recipients \subseteq after.recipients
                /\ \E m \in after.messages :
                    /\ m \notin messages
                    /\ after.messages = messages \cup {m}
                    /\ m.sender_id = s
                    /\ after.resp.body = <<m>>
                    /\ \A e \in added :
                        e.message_id = m.id /\ e.read = FALSE /\ e.read_at = NULL
                /\ Cardinality(added) = Len(r)
                /\ \A u \in UserIdInputs :
                    Cardinality({e \in added : e.recipient_id = u}) = Occurrences(r, u)

\* a send to two recipients has been handled: its Message is persisted with
\* two unread rows
C1_Witness ==
    \E m \in messages :
        /\ Cardinality(RowsOf(m.id)) = 2
        /\ \A e \in RowsOf(m.id) : ~e.read /\ e.read_at = NULL

\* C2: a send whose recipient_ids holds an id that resolves to no user fails
\* with NotFoundError, and the persisted Messages and MessageRecipients (and
\* users) are exactly what they were before the call.
C2_SendAllOrNothing ==
    \A s \in UserIdInputs, c \in Contents, r \in RecipientIdLists :
        SomeUnknown(r) =>
            \A after \in {create_message(s, c, r)} :
            after.fits =>
                /\ Kind(after.resp.status) = "NotFoundError"
                /\ after.messages = messages
                /\ after.recipients = recipients
                /\ after.users = users

\* a known sender sends to [known, unknown]: the loop has added the Message
\* and a row for the known id when it meets the unknown one
C2_Witness ==
    \E s \in UserIdInputs, c \in Contents, r \in RecipientIdLists :
        /\ Known(s)
        /\ Len(r) = 2
        /\ Known(r[1])
        /\ ~Known(r[2])
        /\ create_message(s, c, r).fits
        /\ create_message(s, c, r).resp.detail.id = r[2]

\* C3: a send with an empty recipient_ids always fails with ValidationError
\* and persists nothing: the call leaves the tables as they were, and no
\* Message it left in the session is persisted by a later step.
C3_EmptyRecipientsPersistNothing ==
    [][/\ \A s \in UserIdInputs, c \in Contents :
            Handle(create_message(s, c, <<>>)) =>
                /\ Kind(create_message(s, c, <<>>).resp.status) = "ValidationError"
                /\ messages' = messages
                /\ recipients' = recipients
       /\ \A m \in new_messages : m \notin messages'
      ]_vars

\* C4: a send whose sender_id resolves to no user fails with 404 "Sender not
\* found." and leaves users, messages and recipients unchanged.
C4_UnknownSender ==
    \A s \in UserIdInputs, c \in Contents, r \in RecipientIdLists :
        ~Known(s) =>
            \A after \in {create_message(s, c, r)} :
            after.fits =>
                /\ after.resp.status = HTTP_404
                /\ Kind(after.resp.status) = "NotFoundError"
                /\ after.resp.detail = [msg |-> "Sender not found.", id |-> 0]
                /\ after.users = users
                /\ after.messages = messages
                /\ after.recipients = recipients

\* an unknown sender sends to a list of known users only
C4_Witness ==
    \E s \in UserIdInputs, c \in Contents, r \in RecipientIdLists :
        /\ ~Known(s)
        /\ r # <<>>
        /\ ~SomeUnknown(r)
        /\ create_message(s, c, r).resp.detail.msg = "Sender not found."

\* C5: a send validates in the order (1) recipient_ids non-empty, (2) sender
\* exists, (3) each recipient exists: an empty list fails with
\* ValidationError "no recipients" whether or not the sender exists, an
\* unknown sender with a non-empty list fails with NotFoundError "sender".
C5_ValidationOrder ==
    \A s \in UserIdInputs, c \in Contents, r \in RecipientIdLists :
        \A after \in {create_message(s, c, r)} :
        after.fits =>
            IF r = <<>>
            THEN /\ Kind(after.resp.status) = "ValidationError"
                 /\ after.resp.detail.msg = "Message must have at least one recipient."
            ELSE IF ~Known(s)
            THEN /\ Kind(after.resp.status) = "NotFoundError"
                 /\ after.resp.detail.msg = "Sender not found."
            ELSE SomeUnknown(r) =>
                 /\ Kind(after.resp.status) = "NotFoundError"
                 /\ after.resp.detail.msg = "Recipient not found."

\* C6: when the sender exists and recipient_ids holds ids that resolve to no
\* user, the NotFoundError names the first of them in the order of the list.
C6_FirstUnknownNamed ==
    \A s \in UserIdInputs, c \in Contents, r \in RecipientIdLists :
        (Known(s) /\ SomeUnknown(r)) =>
            \A after \in {create_message(s, c, r)} :
            after.fits =>
                \E i \in 1..Len(r) :
                    /\ ~Known(r[i])
                    /\ \A j \in 1..(i - 1) : Known(r[j])
                    /\ after.resp.status = HTTP_404
                    /\ after.resp.detail = [msg |-> "Recipient not found.", id |-> r[i]]

\* a known sender sends to two different ids that both resolve to no user
C6_Witness ==
    \E s \in UserIdInputs, c \in Contents, r \in RecipientIdLists :
        /\ Known(s)
        /\ Len(r) = 2
        /\ ~Known(r[1])
        /\ ~Known(r[2])
        /\ r[1] # r[2]
        /\ create_message(s, c, r).fits
        /\ create_message(s, c, r).resp.detail.id = r[1]

\* C7: marking an entry whose read flag is already true returns the entry
\* and leaves every row as it was: read stays true and read_at is the one
\* the first call set, whatever the clock says now.
C7_MarkReadIdempotent ==
    \A e \in recipients :
        e.read =>
            \A after \in {mark_message_as_read(e.id)} :
            /\ after.resp.status = HTTP_200_OK
            /\ after.resp.body = <<e>>
            /\ after.recipients = recipients
            /\ after.messages = messages
            /\ after.users = users

\* an entry was marked, and the clock has moved since: a second mark would
\* stamp another time
C7_Witness ==
    \E e \in recipients :
        /\ e.read
        /\ e.read_at < now
        /\ mark_message_as_read(e.id).resp.body[1].read_at = e.read_at

\* C8: marking an existing entry whose read flag is false persists it with
\* read = true and read_at = the time of the call (never null), changes no
\* other row, and returns the updated entry.
C8_MarkReadTransition ==
    \A e \in recipients :
        ~e.read =>
            \A after \in {mark_message_as_read(e.id)} :
            LET updated == [e EXCEPT !.read = TRUE, !.read_at = now]
            IN  /\ updated.read_at # NULL
                /\ after.recipients = (recipients \ {e}) \cup {updated}
                /\ after.resp.status = HTTP_200_OK
                /\ after.resp.body = <<updated>>

\* an unread entry is marked while another entry was read at an earlier time
C8_Witness ==
    \E e, o \in recipients :
        /\ ~e.read
        /\ o.read
        /\ o.read_at < now
        /\ mark_message_as_read(e.id).resp.body[1].read_at = now

\* C9: marking an id that resolves to no MessageRecipient fails with 404
\* "Message recipient entry not found" and changes no row of the store.
C9_MarkReadNotFound ==
    \A id \in EntryIdInputs :
        (\A e \in recipients : e.id # id) =>
            \A after \in {mark_message_as_read(id)} :
            /\ after.resp.status = HTTP_404
            /\ Kind(after.resp.status) = "NotFoundError"
            /\ after.resp.detail.msg = "Message recipient entry not found"
            /\ after.users = users
            /\ after.messages = messages
            /\ after.recipients = recipients

\* an id no entry has is marked while the table holds an unread entry
C9_Witness ==
    \E id \in EntryIdInputs :
        /\ \A e \in recipients : e.id # id
        /\ \E e \in recipients : ~e.read
        /\ mark_message_as_read(id).resp.status = HTTP_404

\* C10: for every persisted MessageRecipient, read_at is non-null if and
\* only if read is true.
C10_ReadAtIffRead ==
    \A e \in recipients : (e.read_at # NULL) <=> e.read

\* a read entry and an unread entry are persisted together
C10_Witness ==
    \E e1, e2 \in recipients : e1.read /\ e1.read_at # NULL /\ ~e2.read

\* C11: read is terminal: an entry that has read = true is still persisted
\* with read = true after every step, whatever the operation.
C11_ReadIsTerminal ==
    [][\A e \in recipients : e.read => \E e2 \in recipients' : e2.id = e.id /\ e2.read]_vars

\* an entry was read, and stayed read while the clock moved and another
\* entry was marked after it
C11_Witness ==
    \E e1, e2 \in recipients : e1.read /\ e2.read /\ e1.read_at < e2.read_at

\* the rows of the store a user's inbox is made of, and the item the
\* contract derives from a row: its parent Message's fields, the entry's id,
\* read and read_at, and the sender
EntriesOf(user_id) == {e \in recipients : e.recipient_id = user_id}
ItemOf(e) ==
    LET m == CHOOSE m \in messages : m.id = e.message_id
    IN  [id |-> m.id, sender_id |-> m.sender_id, content |-> m.content,
         recipient_entry_id |-> e.id, read |-> e.read, read_at |-> e.read_at,
         sender |-> {u \in users : u.id = m.sender_id}]
Items(body) == {body[i] : i \in 1..Len(body)}

\* C12: for every existing user u, in every reachable state, inbox(u)
\* succeeds and returns exactly one item per persisted MessageRecipient row
\* with recipient_id = u (all of them, read and unread), each item being the
\* row's parent Message fields, entry id, read, read_at and sender.
C12_InboxComplete ==
    \A u \in UserIdInputs :
        Known(u) =>
            \A inbox_entries \in Orderings(InboxQuery(u)) :
            \A after \in {get_inbox_messages(u, inbox_entries)} :
                /\ after.resp.status = HTTP_200_OK
                /\ Len(after.resp.body) = Cardinality(EntriesOf(u))
                /\ Items(after.resp.body) = {ItemOf(e) : e \in EntriesOf(u)}

\* C13: for every existing user u, in every reachable state,
\* unread_inbox(u) succeeds and returns exactly one item per persisted row
\* with recipient_id = u and read = false, and no item for a row that is read
\* or belongs to another recipient.
C13_UnreadInboxExact ==
    \A u \in UserIdInputs :
        Known(u) =>
            \A inbox_entries \in Orderings(UnreadInboxQuery(u)) :
            \A after \in {get_unread_inbox_messages(u, inbox_entries)} :
            LET unread == {e \in EntriesOf(u) : ~e.read}
            IN  /\ after.resp.status = HTTP_200_OK
                /\ Len(after.resp.body) = Cardinality(unread)
                /\ Items(after.resp.body) = {ItemOf(e) : e \in unread}
                /\ \A e \in recipients \ unread :
                    \A i \in 1..Len(after.resp.body) :
                        after.resp.body[i].recipient_entry_id # e.id
                /\ after.recipients = recipients
                /\ after.messages = messages

\* a user holds a read entry and an unread entry of two messages: the unread
\* inbox has the one item of the unread entry
C13_Witness ==
    \E u \in UserIdInputs, e1, e2 \in recipients :
        /\ e1.recipient_id = u /\ e1.read
        /\ e2.recipient_id = u /\ ~e2.read
        /\ e1.message_id # e2.message_id
        /\ \A inbox_entries \in Orderings(UnreadInboxQuery(u)) :
            get_unread_inbox_messages(u, inbox_entries).resp.body = <<ItemOf(e2)>>

\* C14: once mark_recipient_read has succeeded on an entry e of recipient u
\* (e is persisted with read = true, which only that operation sets), every
\* inbox(u) contains e's item with read = true, no unread_inbox(u) contains
\* an item of e, and unread_inbox(u) is empty when e is u's only entry.
C14_MarkedShowsInInbox ==
    \A e \in recipients :
        e.read =>
            /\ \A inbox_entries \in Orderings(InboxQuery(e.recipient_id)) :
               \A after \in {get_inbox_messages(e.recipient_id, inbox_entries)} :
                \E i \in 1..Len(after.resp.body) :
                    /\ after.resp.body[i].recipient_entry_id = e.id
                    /\ after.resp.body[i].read = TRUE
            /\ \A inbox_entries \in Orderings(UnreadInboxQuery(e.recipient_id)) :
               \A after \in {get_unread_inbox_messages(e.recipient_id, inbox_entries)} :
                /\ \A i \in 1..Len(after.resp.body) :
                    after.resp.body[i].recipient_entry_id # e.id
                /\ EntriesOf(e.recipient_id) = {e} => after.resp.body = <<>>

\* C15: in every reachable state every persisted Message has at least one
\* MessageRecipient row referencing it.
C15_MessageHasRecipient ==
    \A m \in messages : RowsOf(m.id) # {}

\* C16: referential integrity in every reachable state: every persisted
\* Message.sender_id and every MessageRecipient.recipient_id is the id of a
\* persisted User, and every MessageRecipient.message_id is the id of a
\* persisted Message.
C16_ReferentialIntegrity ==
    /\ \A m \in messages : \E u \in users : u.id = m.sender_id
    /\ \A e \in recipients :
        /\ \E u \in users : u.id = e.recipient_id
        /\ \E m \in messages : m.id = e.message_id

\* two messages are persisted whose senders differ, each with a row for a
\* recipient other than its sender
C16_Witness ==
    \E m1, m2 \in messages :
        /\ m1.sender_id # m2.sender_id
        /\ \E e \in RowsOf(m1.id) : e.recipient_id # m1.sender_id
        /\ \E e \in RowsOf(m2.id) : e.recipient_id # m2.sender_id

\* C17: create_user with an email a persisted user already holds fails with
\* 400 "Email already registered" and adds no user; so, requests being
\* handled one after another, no two persisted users share an email.
C17_DuplicateEmailRejected ==
    /\ \A email \in Emails :
        (\E u \in users : u.email = email) =>
            \A after \in {create_user(email)} :
                /\ after.resp.status = HTTP_400
                /\ Kind(after.resp.status) = "ValidationError"
                /\ after.resp.detail.msg = "Email already registered"
                /\ after.users = users
                /\ after.messages = messages
                /\ after.recipients = recipients
    /\ \A u1, u2 \in users : u1.email = u2.email => u1 = u2

\* every email is taken, by users created one after another: any further
\* create_user is a duplicate
C17_Witness ==
    /\ Cardinality(users) = Cardinality(Emails)
    /\ \A email \in Emails : create_user(email).resp.detail.msg = "Email already registered"

\* C19: for an existing user u, sent_messages(u) succeeds and returns
\* exactly the persisted Messages whose sender_id is u, each once, and no
\* other; for a user id that resolves to no user it fails with 404 "User not
\* found.". Nothing is written.
C19_SentMessagesExact ==
    \A u \in UserIdInputs :
        \A sent \in Orderings(SentQuery(u)) :
        \A after \in {get_sent_messages(u, sent)} :
            /\ after.messages = messages
            /\ after.recipients = recipients
            /\ IF Known(u)
               THEN /\ after.resp.status = HTTP_200_OK
                    /\ Items(after.resp.body) = {m \in messages : m.sender_id = u}
                    /\ Len(after.resp.body) = Cardinality({m \in messages : m.sender_id = u})
               ELSE /\ after.resp.status = HTTP_404
                    /\ Kind(after.resp.status) = "NotFoundError"
                    /\ after.resp.detail.msg = "User not found."

\* two users have each sent a message: each one's list holds their own
\* message only, and an id of no user is refused
C19_Witness ==
    \E m1, m2 \in messages, u \in UserIdInputs :
        /\ m1.sender_id # m2.sender_id
        /\ \A sent \in Orderings(SentQuery(m1.sender_id)) :
            get_sent_messages(m1.sender_id, sent).resp.body = <<m1>>
        /\ ~Known(u)
        /\ get_sent_messages(u, <<>>).resp.status = HTTP_404

\* C20: for an existing message m, recipients_of(m) succeeds and returns
\* exactly one entry per MessageRecipient row of m, each with the row's id,
\* its recipient's id and email (standing for name and email) and the row's
\* current read and read_at; for a message id that resolves to no message
\* it fails with 404 "Message not found.".
C20_RecipientsOfExact ==
    \A id \in MessageIdInputs :
        \A recipient_data \in Orderings(RecipientQuery(id)) :
        \A after \in {get_message_recipient(id, recipient_data)} :
            IF \E m \in messages : m.id = id
            THEN /\ after.resp.status = HTTP_200_OK
                 /\ Len(after.resp.body) = Cardinality(RowsOf(id))
                 /\ Items(after.resp.body) =
                        {[recipient_entry_id |-> e.id, recipient_id |-> e.recipient_id,
                          recipient_email |-> (CHOOSE u \in users : u.id = e.recipient_id).email,
                          read |-> e.read, read_at |-> e.read_at] : e \in RowsOf(id)}
            ELSE /\ after.resp.status = HTTP_404
                 /\ Kind(after.resp.status) = "NotFoundError"
                 /\ after.resp.detail.msg = "Message not found."

\* a message has a read row and an unread row of two recipients: its list
\* has the two entries, and an id of no message is refused
C20_Witness ==
    \E m \in messages, e1, e2 \in recipients :
        /\ e1.message_id = m.id /\ e1.read
        /\ e2.message_id = m.id /\ ~e2.read
        /\ e1.recipient_id # e2.recipient_id
        /\ \A recipient_data \in Orderings(RecipientQuery(m.id)) :
            Len(get_message_recipient(m.id, recipient_data).resp.body) = 2
        /\ \E id \in MessageIdInputs : get_message_recipient(id, <<>>).resp.status = HTTP_404

\* C18: concurrent sends never expose partial rows: whenever a Message
\* becomes visible in the tables, all the MessageRecipient rows of its
\* request (one per listed id) become visible in the same step; the rows of
\* a visible Message never change in number afterwards, and no row is
\* visible without its Message.
C18_NoPartialRows ==
    [][/\ \A m \in messages' \ messages :
            \E w \in Workers :
                /\ in_flight[w].pc # "idle"
                /\ in_flight[w].message_id = m.id
                /\ \A u \in UserIdInputs :
                    Cardinality({e \in recipients' : e.message_id = m.id /\ e.recipient_id = u})
                        = Occurrences(in_flight[w].message_data.recipient_ids, u)
       /\ \A m \in messages :
            {e \in recipients' : e.message_id = m.id} = {e \in recipients : e.message_id = m.id}
       /\ \A e \in recipients' : \E m \in messages' : m.id = e.message_id
      ]_vars

\* a send has committed its Message with two rows although it drew its id
\* while an earlier send, the holder of a lower id that is not persisted, was
\* in flight: the two overlapped
C18_Witness ==
    \E m \in messages :
        /\ Cardinality(RowsOf(m.id)) = 2
        /\ \E id \in 1..(m.id - 1) : \A o \in messages : o.id # id

\* C21: inbox and unread_inbox called with a user id that resolves to no
\* user fail with 404 "User not found." instead of returning an empty
\* sequence, and leave the store unchanged.
C21_InboxUnknownUser ==
    \A u \in UserIdInputs :
        ~Known(u) =>
            /\ \A inbox_entries \in Orderings(InboxQuery(u)) :
               \A after \in {get_inbox_messages(u, inbox_entries)} :
                /\ after.resp.status = HTTP_404
                /\ Kind(after.resp.status) = "NotFoundError"
                /\ after.resp.detail.msg = "User not found."
                /\ after.resp.body = <<>>
                /\ after.users = users
                /\ after.messages = messages
                /\ after.recipients = recipients
            /\ \A inbox_entries \in Orderings(UnreadInboxQuery(u)) :
               \A after \in {get_unread_inbox_messages(u, inbox_entries)} :
                /\ after.resp.status = HTTP_404
                /\ Kind(after.resp.status) = "NotFoundError"
                /\ after.resp.detail.msg = "User not found."
                /\ after.users = users
                /\ after.messages = messages
                /\ after.recipients = recipients

\* the store holds an unread row of an existing user, and both inboxes are
\* asked for an id that resolves to no user
C21_Witness ==
    \E u \in UserIdInputs :
        /\ ~Known(u)
        /\ \E e \in recipients : ~e.read
        /\ get_inbox_messages(u, <<>>).resp.status = HTTP_404
        /\ get_unread_inbox_messages(u, <<>>).resp.status = HTTP_404

\* C22: under any interleaving of concurrent mark_recipient_read calls on
\* one entry, read_at is written once: once it is non-null no step changes
\* it, and every call returns read = true with that same read_at.
C22_ReadAtWrittenOnce ==
    [][/\ \A e \in recipients :
            e.read_at # NULL =>
                \E e2 \in recipients' : e2.id = e.id /\ e2.read_at = e.read_at
       /\ \A w \in Workers :
            (in_flight[w].pc = "loaded" /\ in_flight'[w].pc = "idle") =>
                /\ MarkReturned(w).read
                /\ \A e \in recipients :
                    (e.id = in_flight[w].db_recipient_entry.id /\ e.read_at # NULL) =>
                        MarkReturned(w).read_at = e.read_at
      ]_vars

C24_FailedSendLeavesNothingPending ==
    \A s \in UserIdInputs, c \in Contents, ids \in RecipientIdLists :
        \A after \in {create_message(s, c, ids)} :
            after.resp.status # HTTP_201_CREATED => after.new_messages = {}

\* C25: in every reachable state there is at most one MessageRecipient row
\* per (message_id, recipient_id) pair: a send that lists the same user more
\* than once does not leave two rows for that user on the same message.
C25_OneRowPerPair ==
    \A e1 \in recipients, e2 \in recipients :
        (e1.message_id = e2.message_id /\ e1.recipient_id = e2.recipient_id) => e1 = e2

\* C26: for an existing user who has no MessageRecipient row, inbox returns
\* the empty sequence, as unread_inbox does: a success whose body is a
\* sequence of length 0, not an absent value and not an error.
C26_EmptyInboxIsEmptyList ==
    \A u \in UserIdInputs :
        (Known(u) /\ EntriesOf(u) = {}) =>
            \A inbox \in {get_inbox_messages(u, <<>>)},
               unread \in {get_unread_inbox_messages(u, <<>>)} :
                /\ unread.resp.status = HTTP_200_OK
                /\ unread.resp.body = <<>>
                /\ inbox.resp.status = HTTP_200_OK
                /\ inbox.resp.body = <<>>

\* C27: read state is independent per recipient entry: a successful
\* mark_recipient_read(e) changes only read and read_at of entry e; every
\* other MessageRecipient (the other recipients of the same message
\* included), every Message and every User is unchanged.
C27_MarkChangesOnlyItsEntry ==
    \A id \in EntryIdInputs :
        \A after \in {mark_message_as_read(id)} :
            after.resp.status = HTTP_200_OK =>
                /\ after.users = users
                /\ after.messages = messages
                /\ \A r \in recipients : r.id # id => r \in after.recipients
                /\ \A a \in after.recipients :
                       \E r \in recipients :
                           /\ a.id = r.id
                           /\ a.message_id = r.message_id
                           /\ a.recipient_id = r.recipient_id
                /\ Cardinality(after.recipients) = Cardinality(recipients)

\* one message with two recipients, one of whom has marked it read while the
\* other's entry is still unread
C27_Witness ==
    \E e1 \in recipients, e2 \in recipients :
        /\ e1.message_id = e2.message_id
        /\ e1.recipient_id # e2.recipient_id
        /\ e1.read /\ e1.read_at # NULL
        /\ ~e2.read /\ e2.read_at = NULL

\* C28: inbox and unread_inbox tolerate a missing sender: for a recipient
\* row whose parent Message's sender_id resolves to no user, the operation
\* still succeeds and returns the row's item with the sender absent.
C28_MissingSenderTolerated ==
    \A u \in UserIdInputs :
        Known(u) =>
            /\ \A inbox_entries \in Orderings(UnreadInboxQuery(u)) :
               \A after \in {get_unread_inbox_messages(u, inbox_entries)} :
               \A i \in 1..Len(inbox_entries) :
                   ~Known(inbox_entries[i][1].sender_id) =>
                       /\ after.resp.status = HTTP_200_OK
                       /\ \E item \in Items(after.resp.body) :
                              /\ item.recipient_entry_id = inbox_entries[i][2].id
                              /\ item.sender = {}
            /\ \A inbox_entries \in Orderings(InboxQuery(u)) :
               \A after \in {get_inbox_messages(u, inbox_entries)} :
                   (inbox_entries # <<>> /\ ~Known(inbox_entries[1][1].sender_id)) =>
                       /\ after.resp.status = HTTP_200_OK
                       /\ \E item \in Items(after.resp.body) :
                              /\ item.recipient_entry_id = inbox_entries[1][2].id
                              /\ item.sender = {}

====
